---- MODULE Spec2Model ----
(***************************************************************************)
(* Model of src/timelapse_creator.py over one (domain, camera) target: a  *)
(* local cache directory and a remote image folder.                       *)
(*                                                                         *)
(* Spec     : synchronize_images (and the functions it calls), called     *)
(*            MaxRuns times in succession.                                 *)
(* MainSpec : main for the target: configuration check, authenticate,    *)
(*            discovery, synchronize_images, create_video, upload_video,   *)
(*            cleanup_overflow_images, the finally block and the global    *)
(*            timeout.                                                     *)
(* VideoSpec: create_video and upload_video called on their own, over     *)
(*            every input and every behaviour of the encoder and of the    *)
(*            remote.                                                      *)
(* CallSpec : authenticate, verify_folder_access and list_subfolders      *)
(*            called on their own, over every behaviour of the remote.    *)
(* RunSpec  : main with the default configuration and the progress timer  *)
(*            firing at any moment.                                        *)
(* DiscoverySpec: main seen from a target that is not the first pair with *)
(*            local images: the discovery loop visits it, the processing  *)
(*            works on the other pair.                                     *)
(*                                                                         *)
(* The two caps are drawn at the start (MAX_IMAGES_PER_VIDEO at most      *)
(* MAX_IMAGES_DOWNLOAD, as 1000 is at most 21840) and the page sizes are  *)
(* scaled down with them.  Every remote call and every file operation may *)
(* fail; `faults` counts the failures injected.                            *)
(*                                                                         *)
(* A file name is a record [base, ext]; a local file is [name, modified]; *)
(* a remote object is [id, name, modified].                                *)
(***************************************************************************)
EXTENDS Integers, Sequences, FiniteSets, TLC

(* ------------------------------ bounds -------------------------------- *)
\* Largest value of the two caps (MAX_IMAGES_DOWNLOAD, MAX_IMAGES_PER_VIDEO).
MaxCap == 2
\* Number of candidate files of the local cache at start.
MaxLocal == 3
\* Number of candidate objects of the remote image folder at start.
MaxRemote == 3
\* Number of synchronize_images passes the driver runs in succession.
MaxRuns == 2
\* Number of candidate files and of candidate objects at the start of a run of
\* main (the run adds the start-up, the video and the upload to every pass).
MaxMainLocal == 2
MaxMainRemote == 2

\* Largest desired_duration given to a create_video call made on its own.
MaxDuration == 2

(* ------------------------- program constants -------------------------- *)
\* pageSize=1000 of the paginated listing, scaled down.
PAGE_SIZE == 2
\* max_pages = 50 of the paginated listing, scaled down (PAGE_SIZE * max_pages
\* still exceeds every folder of the model, as 50000 exceeds 21840).
max_pages == 3
\* Size of the only page cleanup_google_drive_overflow reads: its list call
\* passes neither pageSize nor pageToken, so the server's default page size
\* applies (scaled down like PAGE_SIZE).
DEFAULT_PAGE_SIZE == 2

image_extensions == {".jpg", ".jpeg", ".png", ".bmp", ".tiff", ".tif"}

(* ------------------------------ helpers ------------------------------- *)
Min(a, b) == IF a < b THEN a ELSE b
Max(a, b) == IF a > b THEN a ELSE b

\* seq[:n]
Take(seq, n) == SubSeq(seq, 1, Min(Max(n, 0), Len(seq)))

Range(seq) == {seq[i] : i \in 1..Len(seq)}

\* Every order in which a directory listing / an unordered server listing may
\* enumerate the members of S.
Perms(S) ==
    {f \in [1..Cardinality(S) -> S] : \A i, j \in 1..Cardinality(S) : i # j => f[i] # f[j]}

\* str.lower() on the extensions of the model.
Lower(e) == IF e = ".JPG" THEN ".jpg" ELSE IF e = ".PNG" THEN ".png" ELSE e

\* file.lower().endswith(image_extensions)
IsImageFile(name) == Lower(name.ext) \in image_extensions

\* os.path.splitext(name)[0]
WholeName(name) == name
splitext(name) == name.base

\* Comparison of two file names as strings, as image_paths.sort() compares them:
\* ExtRank is the rank of an extension in that order.
ExtRank(e) == IF e = "" THEN 0 ELSE IF e = ".JPG" THEN 1 ELSE IF e = ".jpg" THEN 2 ELSE 3
NameBefore(n, m) == n.base < m.base \/ (n.base = m.base /\ ExtRank(n.ext) < ExtRank(m.ext))

\* list.sort(key=lambda x: x['modified']) / orderBy="modifiedTime asc": a
\* stable sort, ascending in `modified`; entries of equal key keep the order
\* in which they were enumerated.
RECURSIVE InsertByModified(_, _)
InsertByModified(sorted, x) ==
    IF sorted = <<>> THEN <<x>>
    ELSE IF sorted[Len(sorted)].modified <= x.modified THEN Append(sorted, x)
    ELSE Append(InsertByModified(SubSeq(sorted, 1, Len(sorted) - 1), x), sorted[Len(sorted)])

RECURSIVE SortFrom(_, _, _)
SortFrom(seq, i, acc) ==
    IF i > Len(seq) THEN acc ELSE SortFrom(seq, i + 1, InsertByModified(acc, seq[i]))

SortByModified(seq) == SortFrom(seq, 1, <<>>)

(* ------------------------- candidate contents ------------------------- *)
\* Time stamp of a file downloaded by the run: later than every candidate.
DownloadTime == 3

\* The candidate local file of base b: the newest first, then two of equal age.
LocalExt(b) == IF b % 3 = 2 THEN ".png" ELSE IF b % 3 = 0 THEN ".JPG" ELSE ".jpg"
LocalModified(b) == IF b % 3 = 1 THEN 2 ELSE 1
LocalFile(b) == [name |-> [base |-> b, ext |-> LocalExt(b)], modified |-> LocalModified(b)]

\* The candidate remote object of id i; object 1 may carry a name without an
\* image extension (names of remote objects are free-form).
RemoteModified(i) == IF i % 3 = 1 THEN 2 ELSE 1
RemoteObject(i, e) == [id |-> i, name |-> [base |-> i, ext |-> e], modified |-> RemoteModified(i)]
RemoteExts(i) == IF i = 1 THEN {".jpg", ""} ELSE {".jpg"}

LocalCaches == {{LocalFile(b) : b \in S} : S \in SUBSET (1..MaxLocal)}
RemoteFolders ==
    {{RemoteObject(i, x[i]) : i \in S} :
        S \in SUBSET (1..MaxRemote),
        x \in {y \in [1..MaxRemote -> {".jpg", ""}] : \A i \in 1..MaxRemote : y[i] \in RemoteExts(i)}}

(* ------------------------------- state -------------------------------- *)
VARIABLES
    MAX_IMAGES_PER_VIDEO,   \* processing cap (configuration, fixed during a run)
    MAX_IMAGES_DOWNLOAD,    \* download cap (configuration, fixed during a run)
    local,                  \* the target's local cache directory: set of local files
    remote,                 \* the target's remote image folder: set of remote objects
    pc,                     \* position of the single thread of control
    caller,                 \* the call site synchronize_images returns to
    run,                    \* number of synchronize_images passes started
    google_drive_images,    \* synchronize_images: the remote snapshot (listing order)
    local_storage_info,     \* synchronize_images: the local snapshot [count, files]
    new_images,             \* synchronize_images: result of identify_new_images
    downloaded_count,       \* synchronize_images: result of download_new_images
    removed_count,          \* synchronize_images: result of cleanup_old_images
    gd_removed,             \* synchronize_images: result of cleanup_google_drive_overflow
    sync_result,            \* value returned by the last synchronize_images call
    list_failed,            \* history: a page fetch of the pass's snapshot listing raised
    download_log,           \* history: download requests of the pass, in order
    local_delete_log,       \* history: os.remove calls of the pass, in order
    gd_relisted,            \* history: listing read by cleanup_google_drive_overflow
    gd_delete_log,          \* history: remote delete requests of the pass, in order
    faults,                 \* history: number of failures injected since the start
    local_images,           \* main: the image paths found at target discovery
    create_video_calls,     \* main: number of create_video invocations
    upload_calls,           \* main: number of upload_video invocations
    overflow_cleanup_result,\* main: value returned by cleanup_overflow_images
    overflow_local_log,     \* history: os.remove calls of cleanup_overflow_images
    overflow_gd_log,        \* history: remote deletes of cleanup_overflow_images
    FOLDER_A_ID,            \* configuration: the root folder identifier, "" when not set
    ENABLE_IMAGE_SYNC,      \* configuration: feature toggle
    SYNC_BEFORE_VIDEO,      \* configuration: feature toggle
    discovery_failure,      \* history: the call of the start-up that failed, or "none"
    image_paths,            \* create_video: the image paths it was called with
    desired_duration,       \* create_video: its third argument, 0 for None
    image_list_file,        \* TEMP_DIR/image_list.txt: [exists, lines]
    output_video,           \* TEMP_DIR/<camera>_timelapse_output.mp4: "absent", "empty", "video"
    process,                \* the encoder subprocess: [started, fps, polled, return_code]
    ffmpeg_timer,           \* the encoder watchdog: "unarmed", "armed", "fired", "cancelled"
    watchdog,               \* kill_ffmpeg: [fired, running, signals, killed]
    video_created,          \* value returned by the last create_video call
    upload,                 \* the last upload_video call: [raised, attempts, slept, created]
    exit_status,            \* status of the process once pc = "exited"
    temp_dir_exists,        \* whether the directory TEMP_DIR exists
    remote_call,            \* a start-up call made on its own: [fn, failed, attempts, slept, log]
    timeout_timer,          \* the global timeout timer: "unarmed", "armed", "fired", "cancelled"
    progress_timer,         \* the pending progress timer: "unarmed"; "first" (the one the
                            \* global names); "rearmed" (one progress_logger made); "cancelled"
    first_pair              \* discovery: "this" when the target is the first pair with local
                            \* images, "other" when a pair listed before it is

config == <<MAX_IMAGES_PER_VIDEO, MAX_IMAGES_DOWNLOAD>>

toggles == <<FOLDER_A_ID, ENABLE_IMAGE_SYNC, SYNC_BEFORE_VIDEO, first_pair>>

timers == <<timeout_timer, progress_timer>>

video_vars == <<image_paths, desired_duration, image_list_file, output_video, process,
                ffmpeg_timer, watchdog,
                video_created>>

run_vars == <<toggles, discovery_failure, video_vars, upload, exit_status, temp_dir_exists,
              remote_call>>

main_vars == <<local_images, create_video_calls, upload_calls, overflow_cleanup_result,
               overflow_local_log, overflow_gd_log>>

vars == <<config, timers, main_vars, local, remote, pc, caller, run,
          google_drive_images, local_storage_info, new_images, downloaded_count,
          removed_count, gd_removed, sync_result, list_failed, download_log,
          local_delete_log, gd_relisted, gd_delete_log, faults, run_vars>>

NoInfo == [count |-> 0, files |-> <<>>]
NoResult == [is_none |-> FALSE, count |-> 0]
NoCall == [fn |-> "none", failed |-> FALSE, value |-> "None", attempts |-> 0, slept |-> <<>>,
           log |-> <<>>]
NoCleanup == [returned |-> FALSE, local_removed |-> 0, gd_removed |-> 0, total_removed |-> 0]

(* ---------------------- get_google_drive_images ----------------------- *)
\* The order in which files().list without orderBy enumerates a folder: by id.
RECURSIVE NaturalOrderFrom(_, _)
NaturalOrderFrom(folder, i) ==
    IF i > MaxRemote THEN <<>>
    ELSE (IF \E o \in folder : o.id = i
          THEN <<CHOOSE o \in folder : o.id = i>> ELSE <<>>) \o NaturalOrderFrom(folder, i + 1)

NaturalOrder(folder) == NaturalOrderFrom(folder, 1)

\* Pages a full enumeration of `listing` takes (an empty folder takes one).
NumPages(listing) == Max(1, (Len(listing) + PAGE_SIZE - 1) \div PAGE_SIZE)

\* The pagination loop: page_token is the offset of the next page (0: None),
\* fail_at the number of the page whose fetch raises (0: none does).  An
\* exception breaks the loop and the pages read so far are returned.
RECURSIVE FetchPages(_, _, _, _, _)
FetchPages(listing, page_token, page_count, images, fail_at) ==
    IF ~(page_count < max_pages) THEN images
    ELSE IF fail_at = page_count + 1 THEN images
    ELSE LET files == SubSeq(listing, page_token + 1, Min(page_token + PAGE_SIZE, Len(listing)))
             next  == IF page_token + PAGE_SIZE < Len(listing) THEN page_token + PAGE_SIZE ELSE 0
             got   == images \o [i \in 1..Len(files) |-> [id |-> files[i].id, name |-> files[i].name]]
         IN  IF next = 0 THEN got
             ELSE FetchPages(listing, next, page_count + 1, got, fail_at)

get_google_drive_images(folder, fail_at) ==
    FetchPages(NaturalOrder(folder), 0, 0, <<>>, fail_at)

(* ---------------- get_local_storage_info_by_domain_camera ------------- *)
\* `listdir` is the order in which os.listdir enumerated the image files.
get_local_storage_info(listdir) ==
    LET local_files == SortByModified(listdir)
    IN  [count |-> Len(local_files), files |-> local_files]

LocalImageFiles(dir) == {f \in dir : IsImageFile(f.name)}

(* ------------------------- identify_new_images ------------------------ *)
identify_new_images(gd_images, info) ==
    LET local_file_names == {splitext(info.files[i].name) : i \in 1..Len(info.files)}
        IsNew(gd_image) == splitext(gd_image.name) \notin local_file_names
    IN  SelectSeq(gd_images, IsNew)

(* ------------------------- download_new_images ----------------------- *)
\* Outcome of one download: "ok"; "open_error" (open(file_path, 'wb') raised:
\* no file is written); "chunk_error" (the request or a chunk raised after the
\* file was opened: the file exists, truncated).
DownloadOutcomes == {"ok", "open_error", "chunk_error"}

\* open(file_path, 'wb') creates the file of that name or truncates it.
WriteFile(dir, name) ==
    {f \in dir : f.name # name} \cup {[name |-> name, modified |-> DownloadTime]}

\* One iteration of the loop of download_new_images over images[idx].
DownloadOne(st, image, outcome) ==
    [dir   |-> IF outcome = "open_error" THEN st.dir ELSE WriteFile(st.dir, image.name),
     count |-> IF outcome = "ok" THEN st.count + 1 ELSE st.count,
     log   |-> Append(st.log, [id |-> image.id, name |-> image.name, outcome |-> outcome])]

\* After a failed item the loop goes on with the next one.
DownloadContinues(outcome) == TRUE

RECURSIVE DownloadLoop(_, _, _, _)
DownloadLoop(images, outcomes, idx, st) ==
    IF idx > Len(images) THEN st
    ELSE LET st2 == DownloadOne(st, images[idx], outcomes[idx])
         IN  IF DownloadContinues(outcomes[idx])
             THEN DownloadLoop(images, outcomes, idx + 1, st2)
             ELSE st2

\* Result: [dir: the directory afterwards, count: the value returned, log].
download_new_images(dir, images, outcomes) ==
    IF images = <<>> THEN [dir |-> dir, count |-> 0, log |-> <<>>]
    ELSE DownloadLoop(images, outcomes, 1, [dir |-> dir, count |-> 0, log |-> <<>>])

(* -------------------------- cleanup_old_images ------------------------ *)
\* Outcome of one os.remove: "ok" or "os_error" (OSError).
DeleteOutcomes == {"ok", "error"}

\* A variant of ImagesToRemove that is short by one.
ImagesToRemoveShort(current_count, max_images) == current_count - max_images - 1

\* current_count - max_images
ImagesToRemove(current_count, max_images) == current_count - max_images

\* if current_count <= max_images: return 0
WithinLimit(current_count, max_images) == current_count <= max_images

\* One iteration of the loop of cleanup_old_images: os.remove(image['path'])
\* raises FileNotFoundError (an OSError) when the file is gone.
RemoveOne(st, image, outcome) ==
    LET there == \E f \in st.dir : f.name = image.name
        ok    == outcome = "ok" /\ there
    IN  [dir   |-> IF ok THEN {f \in st.dir : f.name # image.name} ELSE st.dir,
         count |-> IF ok THEN st.count + 1 ELSE st.count,
         log   |-> Append(st.log, [name |-> image.name, ok |-> ok])]

\* A variant of RemoveContinues that ends the batch at the first failure.
RemoveStopsOnFailure(outcome) == outcome = "ok"

\* After a failed item the loop goes on with the next one.
RemoveContinues(outcome) == TRUE

RECURSIVE RemoveLoop(_, _, _, _)
RemoveLoop(images, outcomes, idx, st) ==
    IF idx > Len(images) THEN st
    ELSE LET st2 == RemoveOne(st, images[idx], outcomes[idx])
         IN  IF RemoveContinues(outcomes[idx])
             THEN RemoveLoop(images, outcomes, idx + 1, st2)
             ELSE st2

\* The files cleanup_old_images tries to remove, in order.
LocalTargets(info, max_images) ==
    IF WithinLimit(info.count, max_images) THEN <<>>
    ELSE Take(info.files, ImagesToRemove(info.count, max_images))

\* Result: [dir, count: the value returned (removed_count), log].
cleanup_old_images(dir, info, max_images, outcomes) ==
    RemoveLoop(LocalTargets(info, max_images), outcomes, 1,
               [dir |-> dir, count |-> 0, log |-> <<>>])

(* -------------------- cleanup_google_drive_overflow ------------------- *)
\* The response of files().list(orderBy="modifiedTime asc") without pageSize
\* and pageToken: the first page of the folder, oldest first.  `order` is the
\* order in which the server enumerates objects of equal modifiedTime.
ListOldestFirst(order) == Take(SortByModified(order), DEFAULT_PAGE_SIZE)

\* One iteration of the delete loop.
DeleteOne(st, image, outcome) ==
    LET ok == outcome = "ok"
    IN  [folder |-> IF ok THEN {o \in st.folder : o.id # image.id} ELSE st.folder,
         count  |-> IF ok THEN st.count + 1 ELSE st.count,
         log    |-> Append(st.log, [id |-> image.id, ok |-> ok])]

\* After a failed item the loop goes on with the next one.
DeleteContinues(outcome) == TRUE

RECURSIVE DeleteLoop(_, _, _, _)
DeleteLoop(images, outcomes, idx, st) ==
    IF idx > Len(images) THEN st
    ELSE LET st2 == DeleteOne(st, images[idx], outcomes[idx])
         IN  IF DeleteContinues(outcomes[idx])
             THEN DeleteLoop(images, outcomes, idx + 1, st2)
             ELSE st2

\* The objects cleanup_google_drive_overflow tries to delete, in order, given
\* the listing `all_images` it read.
RemoteTargets(all_images, max_images) ==
    IF WithinLimit(Len(all_images), max_images) THEN <<>>
    ELSE Take(all_images, ImagesToRemove(Len(all_images), max_images))

\* Result: [folder, count: the value returned (removed_count), log].
\* list_ok = FALSE: the list call raised and the outer handler returns 0.
cleanup_google_drive_overflow(folder, max_images, list_ok, all_images, outcomes) ==
    IF ~list_ok THEN [folder |-> folder, count |-> 0, log |-> <<>>]
    ELSE DeleteLoop(RemoteTargets(all_images, max_images), outcomes, 1,
                    [folder |-> folder, count |-> 0, log |-> <<>>])

\* Number of entries of a log that record a failure.
Failures(log, Failed(_)) == Cardinality({i \in 1..Len(log) : Failed(log[i])})

(* --------------------------- synchronize_images ----------------------- *)
initial_local_count == local_storage_info.count
initial_gd_count == Len(google_drive_images)

\* MAX_IMAGES_PER_VIDEO - current_local_count
ImagesNeededForProcessing(per_video, current_local_count) == per_video - current_local_count

\* A variant of ImagesToDownload without the limit.
ImagesToDownloadAll(n_new, images_needed) == n_new

\* min(len(new_images), images_needed_for_processing)
ImagesToDownload(n_new, images_needed) == Min(n_new, images_needed)

\* new_images[:images_to_download]
LimitedNewImages(images, per_video, current_local_count) ==
    Take(images, ImagesToDownload(Len(images),
                                  ImagesNeededForProcessing(per_video, current_local_count)))

\* Step 5 runs cleanup_old_images only if total_after_download > MAX_IMAGES_DOWNLOAD.
LocalCleanupNeeded(total_after_download, max_download) == total_after_download > max_download

\* Step 6 runs cleanup_google_drive_overflow only if total_gd_images > MAX_IMAGES_DOWNLOAD.
GdCleanupNeeded(total_gd_images, max_download) == total_gd_images > max_download

\* The limit synchronize_images evicts against on both sides: the download cap
\* (a conflation with the processing cap would be EvictionCapConflated).
EvictionCapConflated == MAX_IMAGES_PER_VIDEO
EvictionCap == MAX_IMAGES_DOWNLOAD

ResetPass ==
    /\ google_drive_images' = <<>>
    /\ local_storage_info' = NoInfo
    /\ new_images' = <<>>
    /\ downloaded_count' = 0
    /\ removed_count' = 0
    /\ gd_removed' = 0
    /\ list_failed' = FALSE
    /\ download_log' = <<>>
    /\ local_delete_log' = <<>>
    /\ gd_relisted' = <<>>
    /\ gd_delete_log' = <<>>

\* The driver calls synchronize_images, MaxRuns times in succession.
CallSynchronize ==
    /\ caller = "driver"
    /\ pc \in {"idle", "returned"}
    /\ run < MaxRuns
    /\ pc' = "snapshot"
    /\ run' = run + 1
    /\ ResetPass
    /\ UNCHANGED <<run_vars, config, timers, main_vars, local, remote, caller,
                   sync_result, faults>>

\* Step 1 and 2: the snapshot of both sides, the early return on an empty
\* remote snapshot, and identify_new_images.
SyncSnapshot ==
    /\ pc = "snapshot"
    /\ \E fail_at \in 0..NumPages(NaturalOrder(remote)),
          info \in {get_local_storage_info(listdir) : listdir \in Perms(LocalImageFiles(local))} :
          LET images == get_google_drive_images(remote, fail_at)
          IN  /\ google_drive_images' = images
              /\ local_storage_info' = info
              /\ list_failed' = (fail_at # 0)
              /\ faults' = faults + (IF fail_at # 0 THEN 1 ELSE 0)
              /\ IF images = <<>>
                 THEN /\ pc' = "returned"
                      /\ sync_result' = [is_none |-> FALSE, count |-> info.count]
                      /\ new_images' = <<>>
                 ELSE /\ pc' = "download"
                      /\ new_images' = identify_new_images(images, info)
                      /\ UNCHANGED sync_result
    /\ UNCHANGED <<run_vars, config, timers, main_vars, local, remote, caller, run,
                   downloaded_count, removed_count, gd_removed, download_log,
                   local_delete_log, gd_relisted, gd_delete_log>>

\* Step 3: the bounded download.  os.makedirs may raise, which the handler of
\* synchronize_images turns into the result None.
SyncDownload ==
    /\ pc = "download"
    /\ IF new_images # <<>> /\ ImagesNeededForProcessing(MAX_IMAGES_PER_VIDEO, initial_local_count) > 0
       THEN \E makedirs_ok \in BOOLEAN :
              IF ~makedirs_ok
              THEN /\ pc' = "returned"
                   /\ sync_result' = [is_none |-> TRUE, count |-> 0]
                   /\ faults' = faults + 1
                   /\ UNCHANGED <<local, downloaded_count, download_log>>
              ELSE LET limited_new_images ==
                           LimitedNewImages(new_images, MAX_IMAGES_PER_VIDEO, initial_local_count)
                   IN  \E outcomes \in [1..Len(limited_new_images) -> DownloadOutcomes] :
                         LET r == download_new_images(local, limited_new_images, outcomes)
                             Failed(e) == e.outcome # "ok"
                         IN  /\ local' = r.dir
                             /\ downloaded_count' = r.count
                             /\ download_log' = r.log
                             /\ faults' = faults + Failures(r.log, Failed)
                             /\ pc' = "local_cleanup"
                             /\ UNCHANGED sync_result
       ELSE /\ downloaded_count' = 0
            /\ pc' = "local_cleanup"
            /\ UNCHANGED <<local, download_log, sync_result, faults>>
    /\ UNCHANGED <<run_vars, config, timers, main_vars, remote, caller, run,
                   google_drive_images, local_storage_info, new_images, removed_count,
                   gd_removed, list_failed, local_delete_log, gd_relisted, gd_delete_log>>

\* A variant of CleanupView that hands over the listing of the remote folder.
RemoteListingView(snapshot, dir) ==
    [count |-> Len(google_drive_images), files |-> google_drive_images]

\* cleanup_old_images(local_storage_info, MAX_IMAGES_DOWNLOAD): the argument
\* is the snapshot taken in Step 1, not a new listing of the directory.
CleanupView(snapshot, dir) == snapshot

\* Step 4 and 5: the arithmetic total and the local eviction from the snapshot.
SyncLocalCleanup ==
    /\ pc = "local_cleanup"
    /\ LET total_after_download == initial_local_count + downloaded_count
       IN  IF LocalCleanupNeeded(total_after_download, EvictionCap)
           THEN \E outcomes \in [1..Len(LocalTargets(CleanupView(local_storage_info, local),
                                                      EvictionCap)) -> DeleteOutcomes] :
                  LET r == cleanup_old_images(local, CleanupView(local_storage_info, local),
                                              EvictionCap, outcomes)
                      Failed(e) == ~e.ok
                  IN  /\ local' = r.dir
                      /\ removed_count' = r.count
                      /\ local_delete_log' = r.log
                      /\ faults' = faults + Failures(r.log, Failed)
           ELSE UNCHANGED <<local, removed_count, local_delete_log, faults>>
    /\ pc' = "gd_cleanup"
    /\ UNCHANGED <<run_vars, config, timers, main_vars, remote, caller, run,
                   google_drive_images, local_storage_info, new_images, downloaded_count,
                   gd_removed, sync_result, list_failed, download_log, gd_relisted,
                   gd_delete_log>>

\* Step 6: the remote eviction, decided on the snapshot count.
SyncGdCleanup ==
    /\ pc = "gd_cleanup"
    /\ IF GdCleanupNeeded(initial_gd_count, EvictionCap)
       THEN \E answer \in {<<FALSE, <<>>>>} \cup
                           {<<TRUE, ListOldestFirst(order)>> : order \in Perms(remote)} :
              LET list_ok    == answer[1]
                  all_images == answer[2]
              IN  \E outcomes \in [1..Len(RemoteTargets(all_images, EvictionCap))
                                    -> DeleteOutcomes] :
                    LET r == cleanup_google_drive_overflow(remote, EvictionCap,
                                                           list_ok, all_images, outcomes)
                        Failed(e) == ~e.ok
                    IN  /\ remote' = r.folder
                        /\ gd_removed' = r.count
                        /\ gd_delete_log' = r.log
                        /\ gd_relisted' = all_images
                        /\ faults' = faults + Failures(r.log, Failed) + (IF list_ok THEN 0 ELSE 1)
       ELSE UNCHANGED <<remote, gd_removed, gd_delete_log, gd_relisted, faults>>
    /\ pc' = "final"
    /\ UNCHANGED <<run_vars, config, timers, main_vars, local, caller, run,
                   google_drive_images, local_storage_info, new_images, downloaded_count,
                   removed_count, sync_result, list_failed, download_log, local_delete_log>>

\* Step 7: the local cache is listed again and returned.
SyncReturn ==
    /\ pc = "final"
    /\ \E info \in {get_local_storage_info(listdir) : listdir \in Perms(LocalImageFiles(local))} :
          sync_result' = [is_none |-> FALSE, count |-> info.count]
    /\ pc' = "returned"
    /\ UNCHANGED <<run_vars, config, timers, main_vars, local, remote, caller, run,
                   google_drive_images, local_storage_info, new_images, downloaded_count,
                   removed_count, gd_removed, list_failed, download_log, local_delete_log,
                   gd_relisted, gd_delete_log, faults>>

(* ------------------------------ messages ------------------------------ *)
\* A text (an error message) is the sequence of its characters.
ascii_uppercase ==
    <<"A", "B", "C", "D", "E", "F", "G", "H", "I", "J", "K", "L", "M", "N", "O", "P", "Q",
      "R", "S", "T", "U", "V", "W", "X", "Y", "Z">>
ascii_lowercase ==
    <<"a", "b", "c", "d", "e", "f", "g", "h", "i", "j", "k", "l", "m", "n", "o", "p", "q",
      "r", "s", "t", "u", "v", "w", "x", "y", "z">>

\* str.lower(), character by character.
LowerChar(c) ==
    IF \E i \in 1..Len(ascii_uppercase) : ascii_uppercase[i] = c
    THEN ascii_lowercase[CHOOSE i \in 1..Len(ascii_uppercase) : ascii_uppercase[i] = c]
    ELSE c
lower(text) == [i \in 1..Len(text) |-> LowerChar(text[i])]

\* keyword in text
Contains(text, keyword) ==
    \E i \in 1..(Len(text) - Len(keyword) + 1) : SubSeq(text, i, i + Len(keyword) - 1) = keyword

\* The keywords of the retryable errors of upload_video.
retry_keywords ==
    {<<"s", "s", "l">>, <<"e", "o", "f">>,
     <<"p", "r", "o", "t", "o", "c", "o", "l">>,
     <<"c", "o", "n", "n", "e", "c", "t", "i", "o", "n">>,
     <<"t", "i", "m", "e", "o", "u", "t">>}

\* Messages of the errors a remote call may raise.
SslError ==
    <<"S", "S", "L", ":", " ", "W", "R", "O", "N", "G", "_", "V", "E", "R", "S", "I", "O",
      "N">>
EofError ==
    <<"E", "O", "F", " ", "o", "c", "c", "u", "r", "r", "e", "d">>
ProtocolError ==
    <<"P", "r", "o", "t", "o", "c", "o", "l", " ", "v", "i", "o", "l", "a", "t", "i", "o",
      "n">>
ConnectionError ==
    <<"C", "o", "n", "n", "e", "c", "t", "i", "o", "n", " ", "r", "e", "s", "e", "t">>
TimeoutError ==
    <<"T", "i", "m", "e", "o", "u", "t">>
TimedOutError ==
    <<"t", "i", "m", "e", "d", " ", "o", "u", "t">>
ForbiddenError ==
    <<"4", "0", "3", " ", "F", "o", "r", "b", "i", "d", "d", "e", "n">>
\* The messages that name a network condition by one of the words ssl, eof,
\* protocol, connection, timeout (in any case), and the others.
TransientMessages == {SslError, EofError, ProtocolError, ConnectionError, TimeoutError}
PermanentMessages == {TimedOutError, ForbiddenError}
ErrorMessages == TransientMessages \cup PermanentMessages

\* f"Video file not found: {video_path}"
FileNotFoundMessage ==
    <<"V", "i", "d", "e", "o", " ", "f", "i", "l", "e", " ", "n", "o", "t", " ", "f", "o",
      "u", "n", "d", ":", " ", "/", "t", "m", "p", "/", "c", "a", "m", "_", "t", "i", "m",
      "e", "l", "a", "p", "s", "e", "_", "o", "u", "t", "p", "u", "t", ".", "m", "p", "4">>
\* "Upload completed but no file ID returned"
NoFileIdMessage ==
    <<"U", "p", "l", "o", "a", "d", " ", "c", "o", "m", "p", "l", "e", "t", "e", "d", " ",
      "b", "u", "t", " ", "n", "o", " ", "f", "i", "l", "e", " ", "I", "D", " ", "r", "e",
      "t", "u", "r", "n", "e", "d">>

(* ------------------------------ create_video -------------------------- *)
NoManifest == [exists |-> FALSE, lines |-> <<>>]
NoProcess == [started |-> 0, fps |-> 0, polled |-> FALSE, return_code |-> 0]
NoVideo == [returned |-> FALSE, value |-> FALSE]

\* kill_ffmpeg, the function of the watchdog timer.  `running` is what
\* `process.poll() is None` gives it when the timer fires and after the grace
\* period of 5 seconds (a process found ended stays ended); `signals` are the
\* signals it sends, in order; `killed`: the encoder was ended by them.
NoWatchdog == [fired |-> FALSE, running |-> <<>>, signals |-> <<>>, killed |-> FALSE]
WatchdogPolls == {<<FALSE, FALSE>>, <<TRUE, FALSE>>, <<TRUE, TRUE>>}

\* if process.poll() is None
AssumedRunning(poll) == TRUE
StillRunning(poll) == poll

kill_ffmpeg(running) ==
    IF StillRunning(running[1])
    THEN IF StillRunning(running[2]) THEN <<"terminate", "kill">> ELSE <<"terminate">>
    ELSE <<>>

\* What the encoder subprocess can do once started, as create_video sees it:
\* it exits by itself, the watchdog ends it (terminate, then kill), or
\* reading its error stream raises.  `written` is what it did to the output
\* path by the time create_video looks at it.  `running` is what the watchdog
\* saw, <<>> when the timer did not fire during the call.
EncoderEndings == {"exit", "killed", "read_error"}
ExitCodes == {0, 1}
KilledCodes == {-15, -9}
Written == {"nothing", "empty", "video"}
EncoderRuns ==
    {[ending |-> "exit", return_code |-> c, written |-> w, running |-> <<>>] :
        c \in ExitCodes, w \in Written}
    \cup {[ending |-> "killed", return_code |-> c, written |-> w, running |-> <<TRUE, c = -9>>] :
              c \in KilledCodes, w \in Written}
    \cup {[ending |-> "read_error", return_code |-> 0, written |-> w, running |-> <<>>] :
              w \in Written}

\* The watchdog after an encoder run.
WatchdogAfter(encoder) ==
    IF encoder.running = <<>> THEN NoWatchdog
    ELSE [fired |-> TRUE, running |-> encoder.running,
          signals |-> kill_ffmpeg(encoder.running), killed |-> encoder.ending = "killed"]

\* The environment of one create_video call: whether writing the manifest and
\* starting the subprocess raise, and the run of the encoder.
CreateVideoEnvs ==
    {[manifest_ok |-> m, popen_ok |-> p, encoder |-> r] :
        m \in BOOLEAN, p \in BOOLEAN, r \in EncoderRuns}

\* The output path after the encoder ran (-y overwrites what was there).
OutputAfter(before, written) == IF written = "nothing" THEN before ELSE written

\* fps = 24, whatever num_images and desired_duration are; the command has
\* '-vf', f'fps={fps}'.
fps == 24
FrameRateForDuration(num_images, duration) ==
    IF duration > 0 THEN Max(1, num_images \div duration) ELSE fps
FrameRate(num_images, duration) == fps

\* if not image_paths
NeverRejected(paths) == FALSE
RejectsEmpty(paths) == paths = <<>>

\* return_code == 0, os.path.exists(output_video), os.path.getsize(output_video) > 0
ExitStatusOnly(return_code, output) == return_code = 0
VideoOk(return_code, output) ==
    /\ return_code = 0
    /\ output # "absent"
    /\ output = "video"

\* create_video(image_paths, output_video, desired_duration) in the
\* environment e: its result and what it leaves behind.
create_video(paths, duration, manifest, output, proc, e) ==
    LET unchanged == [result |-> FALSE, image_list_file |-> manifest, output_video |-> output,
                      process |-> proc, ffmpeg_timer |-> "unarmed", watchdog |-> NoWatchdog]
        written  == [exists |-> TRUE, lines |-> paths]
        started  == [started |-> proc.started + 1, fps |-> FrameRate(Len(paths), duration),
                     polled |-> FALSE, return_code |-> 0]
        after    == OutputAfter(output, e.encoder.written)
    IN  IF RejectsEmpty(paths) THEN unchanged
        ELSE IF ~e.manifest_ok THEN unchanged
        ELSE IF ~e.popen_ok THEN [unchanged EXCEPT !.image_list_file = written]
        ELSE IF e.encoder.ending = "read_error"
        THEN [result |-> FALSE, image_list_file |-> written, output_video |-> after,
              process |-> started, ffmpeg_timer |-> "armed", watchdog |-> NoWatchdog]
        ELSE [result |-> VideoOk(e.encoder.return_code, after),
              image_list_file |-> written,
              output_video |-> after,
              process |-> [started EXCEPT !.polled = TRUE,
                                          !.return_code = e.encoder.return_code],
              ffmpeg_timer |-> IF e.encoder.running # <<>> THEN "fired" ELSE "cancelled",
              watchdog |-> WatchdogAfter(e.encoder)]

(* ------------------------------ upload_video -------------------------- *)
MAX_RETRIES == 3

\* The id the remote gives the object of an answered create request, and the
\* values upload_video can hand to its caller.
NewFileId == "id of the new file"
PythonTrue == "True"
PythonNone == "None"

\* An upload_video call: whether it has returned, whether by raising, the
\* attempts it made (`log`: what each one met), the create requests it sent,
\* the delays it slept and the objects the requests created; `file_id` is
\* response['id'] of the attempt that succeeded and `value` the value returned.
NoUpload == [returned |-> FALSE, raised |-> FALSE, attempts |-> 0, requests |-> 0,
             slept |-> <<>>, created |-> 0, log |-> <<>>,
             file_id |-> PythonNone, value |-> PythonNone]

\* What one files().create(...).execute() can do: answer with the id of the
\* new object, answer without an id, or raise (the request then created
\* nothing).
UploadOutcomes ==
    {[kind |-> "id", msg |-> <<>>], [kind |-> "no_id", msg |-> NoFileIdMessage]}
    \cup {[kind |-> "error", msg |-> m] : m \in ErrorMessages}

\* What an attempt met: the id, an answer without id, or an error of one of
\* the two families of messages.
Met(outcome) ==
    IF outcome.kind # "error" THEN outcome.kind
    ELSE IF outcome.msg \in TransientMessages THEN "transient"
    ELSE "permanent"

\* any(keyword in error_msg.lower() for keyword in [...])
AlwaysRetryable(error_msg) == TRUE
IsRetryable(error_msg) == \E keyword \in retry_keywords : Contains(lower(error_msg), keyword)

\* if response and 'id' in response: return True
UploadNeverDone(outcome) == FALSE
UploadDone(outcome) == outcome.kind = "id"

\* logger.info(f"... File ID: {response['id']}"); return True
UploadReturnValue(response_id) == PythonTrue

\* min(30, 2 ** attempt)
BackoffDelay(attempt) == Min(30, 2 ^ attempt)

\* for attempt in range(MAX_RETRIES): one iteration and the rest of the loop.
\* `u` accumulates what the call has done so far.
RECURSIVE UploadLoop(_, _, _, _)
UploadLoop(attempt, video_exists, outcomes, u) ==
    IF attempt >= MAX_RETRIES
    THEN [u EXCEPT !.returned = TRUE, !.raised = TRUE]
    ELSE LET outcome == IF video_exists THEN outcomes[attempt + 1]
                        ELSE [kind |-> "error", msg |-> FileNotFoundMessage]
             objects == IF video_exists /\ outcome.kind \in {"id", "no_id"} THEN 1 ELSE 0
             tried   == [u EXCEPT !.attempts = @ + 1,
                                  !.requests = @ + (IF video_exists THEN 1 ELSE 0),
                                  !.created = @ + objects,
                                  !.log = Append(@, Met(outcome))]
         IN  IF video_exists /\ UploadDone(outcome)
             THEN [tried EXCEPT !.returned = TRUE,
                                !.file_id = NewFileId,
                                !.value = UploadReturnValue(NewFileId)]
             ELSE IF IsRetryable(outcome.msg) /\ attempt < MAX_RETRIES - 1
             THEN UploadLoop(attempt + 1, video_exists, outcomes,
                             [tried EXCEPT !.slept = Append(@, BackoffDelay(attempt))])
             ELSE [tried EXCEPT !.returned = TRUE, !.raised = TRUE]

\* upload_video(service, folder_id, video_path, video_name)
upload_video(video_exists, outcomes) == UploadLoop(0, video_exists, outcomes, NoUpload)

\* What a call can end as, over every behaviour of the remote, with the video
\* file on disk and without it.
UploadsOfFile == {upload_video(TRUE, o) : o \in [1..MAX_RETRIES -> UploadOutcomes]}
UploadsOfMissingFile == {upload_video(FALSE, o) : o \in [1..MAX_RETRIES -> UploadOutcomes]}
UploadResults(video_exists) == IF video_exists THEN UploadsOfFile ELSE UploadsOfMissingFile

(* ----------------------------- specification -------------------------- *)
\* The configuration and the two stores at the start of a run.
InitStores ==
    /\ MAX_IMAGES_DOWNLOAD \in 1..MaxCap
    /\ MAX_IMAGES_PER_VIDEO \in 1..MAX_IMAGES_DOWNLOAD
    /\ local \in LocalCaches
    /\ remote \in RemoteFolders
    /\ run = 0
    /\ google_drive_images = <<>>
    /\ local_storage_info = NoInfo
    /\ new_images = <<>>
    /\ downloaded_count = 0
    /\ removed_count = 0
    /\ gd_removed = 0
    /\ sync_result = NoResult
    /\ list_failed = FALSE
    /\ download_log = <<>>
    /\ local_delete_log = <<>>
    /\ gd_relisted = <<>>
    /\ gd_delete_log = <<>>
    /\ faults = 0
    /\ local_images = <<>>
    /\ create_video_calls = 0
    /\ upload_calls = 0
    /\ overflow_cleanup_result = NoCleanup
    /\ overflow_local_log = <<>>
    /\ overflow_gd_log = <<>>
    /\ discovery_failure = "none"
    /\ image_list_file = NoManifest
    /\ process = NoProcess
    /\ ffmpeg_timer = "unarmed"
    /\ watchdog = NoWatchdog
    /\ video_created = NoVideo
    /\ upload = NoUpload
    /\ exit_status = 0
    /\ remote_call = NoCall

\* The configuration as it is by default.
DefaultToggles ==
    /\ FOLDER_A_ID = "root"
    /\ ENABLE_IMAGE_SYNC = TRUE
    /\ SYNC_BEFORE_VIDEO = TRUE
    /\ first_pair = "this"

\* Outside main no timer of main has been started.
NoTimers ==
    /\ timeout_timer = "unarmed"
    /\ progress_timer = "unarmed"

\* setup_global_timeout() and setup_progress_monitoring(), the first two
\* statements of main.
TimersStarted ==
    /\ timeout_timer = "armed"
    /\ progress_timer = "first"

\* No create_video call yet, and a TEMP_DIR without an output file.
FreshTempDir ==
    /\ image_paths = <<>>
    /\ output_video = "absent"

\* main calls create_video(image_paths, output_video, None).
NoDuration == desired_duration = 0

\* TEMP_DIR when main starts: the directory tempfile.mkdtemp() has made, or
\* the one of the persistent storage.
TempDirAtStart == temp_dir_exists = TRUE

Init ==
    /\ InitStores
    /\ DefaultToggles
    /\ FreshTempDir
    /\ TempDirAtStart
    /\ NoDuration
    /\ NoTimers
    /\ caller = "driver"
    /\ pc = "idle"

Next ==
    \/ CallSynchronize
    \/ SyncSnapshot
    \/ SyncDownload
    \/ SyncLocalCleanup
    \/ SyncGdCleanup
    \/ SyncReturn

Spec == Init /\ [][Next]_vars

(* --------------------------------- main ------------------------------- *)
\* main over one (domain, camera) target.

\* get_all_images_from_folder: the image files of the directory, sorted by path.
RECURSIVE SortedNames(_)
SortedNames(S) ==
    IF S = {} THEN <<>>
    ELSE LET first == CHOOSE x \in S : \A y \in S \ {x} : NameBefore(x, y)
         IN  <<first>> \o SortedNames(S \ {first})

get_images_from_local_storage(dir) == SortedNames({f.name : f \in LocalImageFiles(dir)})

pass_vars == <<google_drive_images, local_storage_info, new_images, downloaded_count,
               removed_count, gd_removed, list_failed, download_log, local_delete_log,
               gd_relisted, gd_delete_log>>

(* ------------------------------- start-up ----------------------------- *)
\* What one remote call of the start-up can do: succeed, raise an HttpError,
\* or raise another exception with a message.
CallOutcomes ==
    {[kind |-> "ok", msg |-> <<>>], [kind |-> "http_error", msg |-> ForbiddenError]}
    \cup {[kind |-> "error", msg |-> m] : m \in ErrorMessages}

\* "EOF" in str(e) or "SSL" in str(e) or "protocol" in str(e)
network_keywords == {<<"E", "O", "F">>, <<"S", "S", "L">>,
                     <<"p", "r", "o", "t", "o", "c", "o", "l">>}
IsNetworkError(msg) == \E keyword \in network_keywords : Contains(msg, keyword)

\* authenticate(): every failed attempt but the last sleeps and goes on; the
\* last one raises.  `log` keeps what each attempt met.
NoAttemptIsLast(attempt) == FALSE

\* the else branch of `if attempt < MAX_RETRIES - 1`
IsLastAttempt(attempt) == ~(attempt < MAX_RETRIES - 1)

RECURSIVE AuthLoop(_, _, _)
AuthLoop(attempt, outcomes, a) ==
    IF attempt >= MAX_RETRIES THEN a
    ELSE LET tried == [a EXCEPT !.attempts = @ + 1, !.log = Append(@, outcomes[attempt + 1])]
         IN  IF outcomes[attempt + 1].kind = "ok"
             THEN [tried EXCEPT !.service = TRUE]
             ELSE IF ~IsLastAttempt(attempt)
             THEN AuthLoop(attempt + 1, outcomes,
                           [tried EXCEPT !.slept = Append(@, Min(10, (2 ^ attempt) + 1))])
             ELSE [tried EXCEPT !.raised = TRUE]

authenticate(outcomes) ==
    AuthLoop(0, outcomes, [service |-> FALSE, raised |-> FALSE, attempts |-> 0, slept |-> <<>>,
                           log |-> <<>>])

\* The retry loop shared by verify_folder_access and list_subfolders: an
\* HttpError and a network error are tried again until the last attempt, any
\* other exception ends the call at once; a failed call returns False / [].
RECURSIVE FolderCallLoop(_, _, _)
FolderCallLoop(attempt, outcomes, a) ==
    IF attempt >= 3 THEN a
    ELSE LET outcome == outcomes[attempt + 1]
             tried   == [a EXCEPT !.attempts = @ + 1, !.log = Append(@, outcome)]
         IN  IF outcome.kind = "ok" THEN [tried EXCEPT !.ok = TRUE]
             ELSE IF (outcome.kind = "http_error" \/ IsNetworkError(outcome.msg))
                     /\ attempt < 3 - 1
             THEN FolderCallLoop(attempt + 1, outcomes,
                                 [tried EXCEPT !.slept = Append(@, (2 ^ attempt) + 1)])
             ELSE tried

verify_folder_access(outcomes) ==
    FolderCallLoop(0, outcomes, [ok |-> FALSE, attempts |-> 0, slept |-> <<>>, log |-> <<>>])

list_subfolders(outcomes) ==
    FolderCallLoop(0, outcomes, [ok |-> FALSE, attempts |-> 0, slept |-> <<>>, log |-> <<>>])

\* The results the three calls can have, over every behaviour of the remote.
AuthResults == {authenticate(o).service : o \in [1..MAX_RETRIES -> CallOutcomes]}
VerifyResults == {verify_folder_access(o).ok : o \in [1..3 -> CallOutcomes]}
ListResults == {list_subfolders(o).ok : o \in [1..3 -> CallOutcomes]}

call_state == <<config, main_vars, local, remote, caller, run, pass_vars, sync_result, faults,
                toggles, video_vars, upload, temp_dir_exists>>

main_state == <<call_state, remote_call>>

\* if not FOLDER_A_ID: return
MainCheckConfig ==
    /\ pc = "main_entry"
    /\ pc' = IF FOLDER_A_ID = "" THEN "done" ELSE "authenticate"
    /\ UNCHANGED <<main_state, timers, discovery_failure, exit_status>>

\* service = authenticate(); its exception is caught by the handler of main.
MainAuthenticate ==
    /\ pc = "authenticate"
    /\ \E service \in AuthResults :
          IF service
          THEN pc' = "verify" /\ UNCHANGED discovery_failure
          ELSE pc' = "done" /\ discovery_failure' = "authenticate"
    /\ UNCHANGED <<main_state, timers, exit_status>>

\* if not verify_folder_access(service, FOLDER_A_ID): raise ValueError
MainVerifyAccess ==
    /\ pc = "verify"
    /\ \E ok \in VerifyResults :
          IF ok
          THEN pc' = "list_locations" /\ UNCHANGED discovery_failure
          ELSE pc' = "done" /\ discovery_failure' = "verify_folder_access"
    /\ UNCHANGED <<main_state, timers, exit_status>>

\* locations = list_subfolders(service, FOLDER_A_ID); if not locations: return
MainListLocations ==
    /\ pc = "list_locations"
    /\ \E ok \in ListResults, empty \in BOOLEAN :
          IF ~ok
          THEN pc' = "done" /\ discovery_failure' = "list_subfolders"
          ELSE /\ pc' = IF empty THEN "done" ELSE "list_cameras"
               /\ UNCHANGED discovery_failure
    /\ UNCHANGED <<main_state, timers, exit_status>>

\* The loop over the locations up to the camera of the target: the listing of
\* the cameras of a location before the target's may fail (that location is
\* then taken to have no camera), and so may the listing of the target's
\* location, which leaves no (domain, camera) pair.
MainListCameras ==
    /\ pc = "list_cameras"
    /\ \E other \in {"none", "listed", "failed"}, ok \in ListResults, empty \in BOOLEAN :
          /\ discovery_failure' =
                IF other = "failed" \/ ~ok THEN "list_subfolders" ELSE discovery_failure
          /\ pc' = IF ok /\ ~empty THEN "main_start" ELSE "done"
    /\ UNCHANGED <<main_state, timers, exit_status>>

\* find_or_create_folder: it returns the folder or raises the HttpError.
FolderLookups == {"found", "error"}

\* Target discovery: the local images of the camera; with none (and the
\* synchronization enabled), a first synchronize_images call before the
\* re-check, unless the lookup of the image folder raises.
MainDiscover ==
    /\ pc = "main_start"
    /\ local_images' = get_images_from_local_storage(local)
    /\ IF local_images' = <<>> /\ ENABLE_IMAGE_SYNC /\ SYNC_BEFORE_VIDEO
       THEN \E lookup \in FolderLookups :
              IF lookup = "found"
              THEN /\ pc' = "snapshot"
                   /\ caller' = "discover"
                   /\ run' = run + 1
                   /\ ResetPass
                   /\ UNCHANGED faults
              ELSE /\ pc' = "main_selected"
                   /\ faults' = faults + 1
                   /\ UNCHANGED <<caller, run, pass_vars>>
       ELSE /\ pc' = "main_selected"
            /\ UNCHANGED <<caller, run, pass_vars, faults>>
    /\ UNCHANGED <<config, timers, local, remote, sync_result, create_video_calls,
                   upload_calls, overflow_cleanup_result, overflow_local_log, overflow_gd_log,
                   run_vars>>

\* Re-check of the local images after the sync attempt of the discovery.
MainRecheck ==
    /\ pc = "returned"
    /\ caller = "discover"
    /\ local_images' = get_images_from_local_storage(local)
    /\ pc' = "main_selected"
    /\ UNCHANGED <<config, timers, local, remote, caller, run, pass_vars, sync_result, faults,
                   create_video_calls, upload_calls, overflow_cleanup_result,
                   overflow_local_log, overflow_gd_log, run_vars>>

\* A target without local images ends the run.  Otherwise the timelapse
\* folder is looked up and Step 1 of the processing calls synchronize_images
\* when the synchronization is enabled; a lookup that raises ends the
\* processing.
MainProcess ==
    /\ pc = "main_selected"
    /\ first_pair = "this"
    /\ IF local_images = <<>>
       THEN /\ pc' = "done"
            /\ UNCHANGED <<caller, run, pass_vars, sync_result, faults>>
       ELSE \E lookup \in FolderLookups :
              IF lookup = "error"
              THEN /\ pc' = "done"
                   /\ faults' = faults + 1
                   /\ UNCHANGED <<caller, run, pass_vars, sync_result>>
              ELSE IF ENABLE_IMAGE_SYNC /\ SYNC_BEFORE_VIDEO
              THEN /\ pc' = "snapshot"
                   /\ caller' = "process"
                   /\ run' = run + 1
                   /\ ResetPass
                   /\ UNCHANGED <<sync_result, faults>>
              ELSE /\ pc' = "assemble"
                   /\ sync_result' = [is_none |-> TRUE, count |-> 0]
                   /\ UNCHANGED <<caller, run, pass_vars, faults>>
    /\ UNCHANGED <<run_vars, config, timers, main_vars, local, remote>>

\* if sync_result is None: return
SyncNeverFailed(result) == FALSE
SyncFailed(result) == result.is_none

MainAfterSync ==
    /\ pc = "returned"
    /\ caller = "process"
    /\ pc' = IF SyncFailed(sync_result) THEN "done" ELSE "assemble"
    /\ UNCHANGED <<run_vars, config, timers, main_vars, local, remote, caller, run, pass_vars,
                   sync_result, faults>>

\* if create_video(image_paths, output_video, None): ... upload_video(...)
UploadAlwaysFollows(created) == TRUE
UploadFollows(created) == created

\* if len(image_paths) > MAX_IMAGES_PER_VIDEO: image_paths = image_paths[:MAX_IMAGES_PER_VIDEO]
NoLimit(paths, max_images) == paths
LimitImages(paths, max_images) ==
    IF Len(paths) > max_images THEN Take(paths, max_images) ELSE paths

\* Step 2 and 3: the images of the discovery, limited to MAX_IMAGES_PER_VIDEO,
\* are given to create_video; its result decides whether the upload follows.
MainCreateVideo ==
    /\ pc = "assemble"
    /\ create_video_calls' = create_video_calls + 1
    /\ image_paths' = LimitImages(local_images, MAX_IMAGES_PER_VIDEO)
    /\ \E r \in {create_video(image_paths', desired_duration, image_list_file, output_video,
                              process, e) :
                    e \in CreateVideoEnvs} :
          /\ image_list_file' = r.image_list_file
          /\ output_video' = r.output_video
          /\ process' = r.process
          /\ ffmpeg_timer' = r.ffmpeg_timer
          /\ watchdog' = r.watchdog
          /\ video_created' = [returned |-> TRUE, value |-> r.result]
          /\ pc' = IF UploadFollows(r.result) THEN "upload" ELSE "done"
    /\ UNCHANGED <<config, timers, local, remote, caller, run, pass_vars, sync_result, faults,
                   local_images, upload_calls, overflow_cleanup_result, overflow_local_log,
                   overflow_gd_log, toggles, discovery_failure, upload, exit_status,
                   temp_dir_exists, remote_call, desired_duration>>

\* Step 4: upload_video returns or raises; the overflow cleanup follows a
\* successful upload only.
MainUploadVideo ==
    /\ pc = "upload"
    /\ upload_calls' = upload_calls + 1
    /\ \E u \in UploadResults(output_video # "absent") :
          /\ upload' = u
          /\ pc' = IF u.raised THEN "done" ELSE "evict"
    /\ UNCHANGED <<config, timers, local, remote, caller, run, pass_vars, sync_result, faults,
                   local_images, create_video_calls, overflow_cleanup_result,
                   overflow_local_log, overflow_gd_log, toggles, discovery_failure,
                   video_vars, exit_status, temp_dir_exists, remote_call>>

(* ------------------------ cleanup_overflow_images --------------------- *)
\* max(0, count - max_images)
Overflow(count, max_images) == Max(0, count - max_images)

\* The value cleanup_overflow_images returns, given the two overflows it
\* computed and the two counts its cleanup calls returned.
OverflowResult(local_overflow, gd_overflow, local_removed, gd_rm) ==
    [returned |-> TRUE,
     local_removed |-> local_overflow,
     gd_removed |-> gd_overflow,
     total_removed |-> local_overflow + gd_overflow]

\* Step 5 of main: cleanup_overflow_images(..., MAX_IMAGES_DOWNLOAD).
CleanupOverflowImages ==
    /\ pc = "evict"
    /\ \/ \* the lookup of the image folder raises: main logs it and goes on
          /\ faults' = faults + 1
          /\ UNCHANGED <<local, remote, overflow_local_log, overflow_gd_log,
                         overflow_cleanup_result>>
       \/ \E info \in {get_local_storage_info(listdir) : listdir \in Perms(LocalImageFiles(local))},
          fail_at \in 0..NumPages(NaturalOrder(remote)) :
          LET max_images     == MAX_IMAGES_DOWNLOAD
              local_overflow == Overflow(info.count, max_images)
              gd_images      == get_google_drive_images(remote, fail_at)
              gd_overflow    == Overflow(Len(gd_images), max_images)
              \* what the list call of cleanup_google_drive_overflow may answer:
              \* <<FALSE, <<>>>> when it raises, <<TRUE, the first page>> otherwise
              answers        == IF gd_overflow > 0
                                THEN {<<FALSE, <<>>>>} \cup
                                     {<<TRUE, ListOldestFirst(order)>> : order \in Perms(remote)}
                                ELSE {<<TRUE, <<>>>>}
          IN  \E answer \in answers :
                LET list_ok    == answer[1]
                    all_images == answer[2]
                IN  \E louts \in [1..Len(LocalTargets(info, max_images)) -> DeleteOutcomes],
                       gouts \in [1..Len(RemoteTargets(all_images, max_images)) -> DeleteOutcomes] :
                      LET lr == IF local_overflow > 0
                                THEN cleanup_old_images(local, info, max_images, louts)
                                ELSE [dir |-> local, count |-> 0, log |-> <<>>]
                          gr == IF gd_overflow > 0
                                THEN cleanup_google_drive_overflow(remote, max_images, list_ok,
                                                                   all_images, gouts)
                                ELSE [folder |-> remote, count |-> 0, log |-> <<>>]
                          Failed(e) == ~e.ok
                      IN  /\ local' = lr.dir
                          /\ remote' = gr.folder
                          /\ overflow_local_log' = lr.log
                          /\ overflow_gd_log' = gr.log
                          /\ overflow_cleanup_result' =
                                OverflowResult(local_overflow, gd_overflow, lr.count, gr.count)
                          /\ faults' = faults + Failures(lr.log, Failed) + Failures(gr.log, Failed)
                                        + (IF fail_at # 0 THEN 1 ELSE 0)
                                        + (IF list_ok THEN 0 ELSE 1)
    /\ pc' = "done"
    /\ UNCHANGED <<config, timers, caller, run, pass_vars, sync_result, local_images,
                   create_video_calls, upload_calls, run_vars>>

\* threading.Timer.cancel() stops the timer it is called on when that timer
\* is still waiting.  cleanup_timers calls it on the two globals: timeout_timer,
\* and progress_timer, which names the timer setup_progress_monitoring started
\* (progress_logger assigns the timers it starts to a local of its own).
cancel(timer) == IF timer \in {"armed", "first"} THEN "cancelled" ELSE timer

\* finally: cleanup_timers() and shutil.rmtree(TEMP_DIR, ignore_errors=True),
\* which removes the directory with what is in it unless the removal fails;
\* main returns and the interpreter exits with status 0.
MainFinally ==
    /\ pc = "done"
    /\ \E removed \in BOOLEAN :
          IF removed
          THEN /\ image_list_file' = NoManifest
               /\ output_video' = "absent"
               /\ temp_dir_exists' = FALSE
          ELSE UNCHANGED <<image_list_file, output_video, temp_dir_exists>>
    /\ timeout_timer' = cancel(timeout_timer)
    /\ progress_timer' = cancel(progress_timer)
    /\ pc' = "exited"
    /\ exit_status' = 0
    /\ UNCHANGED <<config, main_vars, local, remote, caller, run, pass_vars, sync_result,
                   faults, toggles, discovery_failure, image_paths, process, ffmpeg_timer,
                   watchdog, video_created, upload, remote_call, desired_duration>>

\* timeout_handler of setup_global_timeout: os._exit(1), at any moment before
\* cleanup_timers has cancelled the timer.
HandlerReturns(at) == [pc |-> at, exit_status |-> 0]

\* logger.error(...); os._exit(1)
timeout_handler(at) == [pc |-> "exited", exit_status |-> 1]

TimeoutFires ==
    /\ timeout_timer = "armed"
    /\ pc # "exited"
    /\ timeout_timer' = "fired"
    /\ pc' = timeout_handler(pc).pc
    /\ exit_status' = timeout_handler(pc).exit_status
    /\ UNCHANGED <<main_state, discovery_failure, progress_timer>>

\* progress_logger, run by the progress timer every PROGRESS_LOG_INTERVAL
\* seconds while the process lives: it logs and starts the next timer.
ProgressFires ==
    /\ progress_timer \in {"first", "rearmed"}
    /\ ~(pc = "exited" /\ exit_status = 1)
    /\ progress_timer' = "rearmed"
    /\ UNCHANGED <<main_state, discovery_failure, pc, exit_status, timeout_timer>>

\* The timer of a create_video call that returned through its exception
\* handler was not cancelled: it fires later and kill_ffmpeg runs then,
\* unless os._exit has ended the process.
KillFfmpeg ==
    /\ ffmpeg_timer = "armed"
    /\ video_created.returned
    /\ ~(pc = "exited" /\ exit_status = 1)
    /\ ffmpeg_timer' = "fired"
    /\ \E running \in WatchdogPolls :
          watchdog' = [fired |-> TRUE, running |-> running,
                       signals |-> kill_ffmpeg(running), killed |-> running[1]]
    /\ UNCHANGED <<config, timers, main_vars, local, remote, pc, caller, run, pass_vars, sync_result,
                   faults, toggles, discovery_failure, image_paths, desired_duration,
                   image_list_file, output_video, process, video_created, upload,
                   exit_status, temp_dir_exists, remote_call>>

MainInit ==
    /\ InitStores
    /\ \A f \in local : f.name.base <= MaxMainLocal
    /\ \A o \in remote : o.id <= MaxMainRemote
    /\ FOLDER_A_ID \in {"", "root"}
    /\ ENABLE_IMAGE_SYNC \in BOOLEAN
    /\ SYNC_BEFORE_VIDEO \in BOOLEAN
    /\ FreshTempDir
    /\ TempDirAtStart
    /\ NoDuration
    /\ TimersStarted
    /\ first_pair = "this"
    /\ caller = "main"
    /\ pc = "main_entry"

MainNext ==
    \/ MainCheckConfig
    \/ MainAuthenticate
    \/ MainVerifyAccess
    \/ MainListLocations
    \/ MainListCameras
    \/ MainFinally
    \/ TimeoutFires
    \/ KillFfmpeg
    \/ MainDiscover
    \/ MainRecheck
    \/ MainProcess
    \/ MainAfterSync
    \/ MainCreateVideo
    \/ MainUploadVideo
    \/ CleanupOverflowImages
    \/ SyncSnapshot
    \/ SyncDownload
    \/ SyncLocalCleanup
    \/ SyncGdCleanup
    \/ SyncReturn

MainSpec == MainInit /\ [][MainNext]_vars

(* ------------------- main with the progress timer --------------------- *)
\* main with the default configuration and the progress timer firing at any
\* moment, over local caches of files of the same age (the file that is first
\* by name is then among the oldest, as with names that carry a timestamp).
RunInit ==
    /\ InitStores
    /\ \A f \in local : f.name.base > 1
    /\ \A o \in remote : o.id <= MaxMainRemote
    /\ DefaultToggles
    /\ FreshTempDir
    /\ TempDirAtStart
    /\ NoDuration
    /\ TimersStarted
    /\ caller = "main"
    /\ pc = "main_entry"

RunNext ==
    \/ MainNext
    \/ ProgressFires

RunSpec == RunInit /\ [][RunNext]_vars

(* ------------------ a target that is not the first pair --------------- *)
\* selected_pair = domain_camera_pairs[0] is a pair that was listed before
\* the target: what main does after the discovery loop it does to that pair.
MainSelectOther ==
    /\ pc = "main_selected"
    /\ first_pair = "other"
    /\ pc' = "done"
    /\ UNCHANGED <<main_state, timers, discovery_failure, exit_status>>

\* main seen from a target that the discovery loop visits after a pair with
\* local images.
DiscoveryInit ==
    /\ InitStores
    /\ \A f \in local : f.name.base <= MaxMainLocal
    /\ \A o \in remote : o.id <= MaxMainRemote
    /\ FOLDER_A_ID = "root"
    /\ ENABLE_IMAGE_SYNC \in BOOLEAN
    /\ SYNC_BEFORE_VIDEO \in BOOLEAN
    /\ first_pair = "other"
    /\ FreshTempDir
    /\ TempDirAtStart
    /\ NoDuration
    /\ TimersStarted
    /\ caller = "main"
    /\ pc = "main_entry"

DiscoveryNext ==
    \/ MainCheckConfig
    \/ MainAuthenticate
    \/ MainVerifyAccess
    \/ MainListLocations
    \/ MainListCameras
    \/ MainDiscover
    \/ SyncSnapshot
    \/ SyncDownload
    \/ SyncLocalCleanup
    \/ SyncGdCleanup
    \/ SyncReturn
    \/ MainRecheck
    \/ MainSelectOther
    \/ MainFinally
    \/ TimeoutFires

DiscoverySpec == DiscoveryInit /\ [][DiscoveryNext]_vars

(* --------------------- create_video and upload_video ------------------ *)
\* The two functions called on their own: create_video over every list of
\* image paths (the empty one included) and every state of the output path,
\* then upload_video over the file that results.
VideoInputs == {get_images_from_local_storage(dir) : dir \in LocalCaches}

CallCreateVideo ==
    /\ pc = "call_create_video"
    /\ create_video_calls' = create_video_calls + 1
    /\ \E r \in {create_video(image_paths, desired_duration, image_list_file, output_video,
                              process, e) :
                    e \in CreateVideoEnvs} :
          /\ image_list_file' = r.image_list_file
          /\ output_video' = r.output_video
          /\ process' = r.process
          /\ ffmpeg_timer' = r.ffmpeg_timer
          /\ watchdog' = r.watchdog
          /\ video_created' = [returned |-> TRUE, value |-> r.result]
    /\ pc' = "call_upload_video"
    /\ UNCHANGED <<config, timers, local, remote, caller, run, pass_vars, sync_result, faults,
                   local_images, upload_calls, overflow_cleanup_result, overflow_local_log,
                   overflow_gd_log, toggles, discovery_failure, image_paths, upload,
                   exit_status, temp_dir_exists, remote_call, desired_duration>>

CallUploadVideo ==
    /\ pc = "call_upload_video"
    /\ upload_calls' = upload_calls + 1
    /\ \E u \in UploadResults(output_video # "absent") :
          upload' = u
    /\ pc' = "called"
    /\ UNCHANGED <<config, timers, local, remote, caller, run, pass_vars, sync_result, faults,
                   local_images, create_video_calls, overflow_cleanup_result,
                   overflow_local_log, overflow_gd_log, toggles, discovery_failure,
                   video_vars, exit_status, temp_dir_exists, remote_call>>

VideoInit ==
    /\ InitStores
    /\ DefaultToggles
    /\ local = {}
    /\ remote = {}
    /\ MAX_IMAGES_DOWNLOAD = 1
    /\ image_paths \in VideoInputs
    /\ desired_duration \in 0..MaxDuration
    /\ output_video \in {"absent", "empty", "video"}
    /\ TempDirAtStart
    /\ NoTimers
    /\ caller = "call"
    /\ pc = "call_create_video"

VideoNext ==
    \/ CallCreateVideo
    \/ CallUploadVideo
    \/ KillFfmpeg

VideoSpec == VideoInit /\ [][VideoNext]_vars

(* ------------------------- the start-up calls ------------------------ *)
\* authenticate, verify_folder_access and list_subfolders called on their own,
\* over every behaviour of the remote during their attempts.
\* `value` is what the call returned ("None" when it raised instead).
ServiceHandle == "service"

AuthCalls ==
    {[fn |-> "authenticate", failed |-> r.raised,
      value |-> IF r.service THEN ServiceHandle ELSE PythonNone, attempts |-> r.attempts,
      slept |-> r.slept, log |-> r.log] :
        r \in {authenticate(o) : o \in [1..MAX_RETRIES -> CallOutcomes]}}
VerifyCalls ==
    {[fn |-> "verify_folder_access", failed |-> ~r.ok,
      value |-> IF r.ok THEN PythonTrue ELSE "False", attempts |-> r.attempts,
      slept |-> r.slept, log |-> r.log] :
        r \in {verify_folder_access(o) : o \in [1..3 -> CallOutcomes]}}
ListCalls ==
    {[fn |-> "list_subfolders", failed |-> ~r.ok,
      value |-> IF r.ok THEN "folders" ELSE "[]", attempts |-> r.attempts,
      slept |-> r.slept, log |-> r.log] :
        r \in {list_subfolders(o) : o \in [1..3 -> CallOutcomes]}}

CallAuthenticate ==
    /\ pc = "call_remote"
    /\ remote_call' \in AuthCalls
    /\ pc' = "called"
    /\ UNCHANGED <<call_state, timers, discovery_failure, exit_status>>

CallVerifyFolderAccess ==
    /\ pc = "call_remote"
    /\ remote_call' \in VerifyCalls
    /\ pc' = "called"
    /\ UNCHANGED <<call_state, timers, discovery_failure, exit_status>>

CallListSubfolders ==
    /\ pc = "call_remote"
    /\ remote_call' \in ListCalls
    /\ pc' = "called"
    /\ UNCHANGED <<call_state, timers, discovery_failure, exit_status>>

CallInit ==
    /\ InitStores
    /\ DefaultToggles
    /\ FreshTempDir
    /\ TempDirAtStart
    /\ NoDuration
    /\ local = {}
    /\ remote = {}
    /\ MAX_IMAGES_DOWNLOAD = 1
    /\ NoTimers
    /\ caller = "call"
    /\ pc = "call_remote"

CallNext ==
    \/ CallAuthenticate
    \/ CallVerifyFolderAccess
    \/ CallListSubfolders

CallSpec == CallInit /\ [][CallNext]_vars

(* ------------------------------- claims ------------------------------ *)
LocalCount == Cardinality(LocalImageFiles(local))
RemoteCount == Cardinality(remote)

LogOk(log) == \A i \in 1..Len(log) : log[i].ok
RemovedNames(log) == {log[i].name : i \in {j \in 1..Len(log) : log[j].ok}}
DeletedIds(log) == {log[i].id : i \in {j \in 1..Len(log) : log[j].ok}}
Ids(seq) == [i \in 1..Len(seq) |-> seq[i].id]
Names(seq) == [i \in 1..Len(seq) |-> seq[i].name]

\* The k oldest members of a set of local files, equal ages ordered by name.
OldestLocalNames(S, k) ==
    {x.name : x \in {y \in S :
        Cardinality({z \in S : z.modified < y.modified
                                \/ (z.modified = y.modified /\ NameBefore(z.name, y.name))}) < k}}

\* The k oldest of a set of remote ids, equal ages ordered by id.
OldestRemoteIds(S, k) ==
    {x \in S :
        Cardinality({z \in S : RemoteModified(z) < RemoteModified(x)
                                \/ (RemoteModified(z) = RemoteModified(x) /\ z < x)}) < k}

C2_RemoteWithinCap ==
    (pc = "returned" /\ run >= 1 /\ faults = 0 /\ google_drive_images # <<>>)
    => RemoteCount <= MAX_IMAGES_DOWNLOAD

\* C3: the download requests of a pass never exceed
\* max(0, MAX_IMAGES_PER_VIDEO - initial_local_count).
C3_DownloadBound ==
    Len(download_log) <= Max(0, MAX_IMAGES_PER_VIDEO - initial_local_count)

\* C3 witness: more new remote objects than needed, and the needed ones requested.
C3_Witness ==
    /\ pc = "local_cleanup"
    /\ Len(new_images) > Len(download_log)
    /\ Len(download_log) = MAX_IMAGES_PER_VIDEO - initial_local_count
    /\ Len(download_log) >= 1

\* C4 (as claimed): the eviction targets of a pass are taken from the snapshot
\* of its start: every file removed is a file of the local snapshot, every
\* object deleted is an object of the remote snapshot, and no listing read
\* after the snapshot decides the objects to delete.
C4_TargetsFromSnapshot ==
    /\ \A i \in 1..Len(local_delete_log) :
          local_delete_log[i].name \in Range(Names(local_storage_info.files))
    /\ \A i \in 1..Len(gd_delete_log) :
          gd_delete_log[i].id \in Range(Ids(google_drive_images))
    /\ gd_delete_log # <<>> => gd_relisted = <<>>

\* C5: a side whose snapshot count is at most MAX_IMAGES_DOWNLOAD sees no
\* delete operation in the pass.
C5_NoEvictionWithinCap ==
    /\ initial_local_count <= MAX_IMAGES_DOWNLOAD => local_delete_log = <<>>
    /\ initial_gd_count <= MAX_IMAGES_DOWNLOAD => gd_delete_log = <<>>

\* C5 witness: a completed pass over two sides exactly at the cap, with no delete.
C5_Witness ==
    /\ pc = "returned"
    /\ initial_local_count = MAX_IMAGES_DOWNLOAD
    /\ initial_gd_count = MAX_IMAGES_DOWNLOAD
    /\ ~sync_result.is_none
    /\ faults = 0
    /\ local_delete_log = <<>>
    /\ gd_delete_log = <<>>

\* C6 (as claimed, for passes without any failure): an eviction over a
\* snapshot of MAX_IMAGES_DOWNLOAD + k entries removes exactly the k oldest
\* entries of the snapshot, entries of equal age taken in name (id) order.
C6_ExactlyKOldest ==
    (pc = "returned" /\ faults = 0) =>
        /\ local_delete_log # <<>> =>
              RemovedNames(local_delete_log) =
                  OldestLocalNames(Range(local_storage_info.files),
                                   initial_local_count - MAX_IMAGES_DOWNLOAD)
        /\ gd_delete_log # <<>> =>
              DeletedIds(gd_delete_log) =
                  OldestRemoteIds(Range(Ids(google_drive_images)),
                                  initial_gd_count - MAX_IMAGES_DOWNLOAD)

\* C7 (as claimed, for runs without any failure): the second of two passes in
\* succession issues no download and no delete.
C7_SecondRunIdle ==
    (run = 2 /\ faults = 0) =>
        /\ download_log = <<>>
        /\ local_delete_log = <<>>
        /\ gd_delete_log = <<>>

\* C9: in each batch, a failed item does not end the batch: once a batch has
\* issued a request, it has issued one for every item planned, in order.
C9_BatchGoesOn ==
    /\ download_log # <<>> =>
          Ids(download_log) =
              Ids(LimitedNewImages(new_images, MAX_IMAGES_PER_VIDEO, initial_local_count))
    /\ local_delete_log # <<>> =>
          Names(local_delete_log) = Names(LocalTargets(local_storage_info, MAX_IMAGES_DOWNLOAD))
    /\ gd_delete_log # <<>> =>
          Ids(gd_delete_log) = Ids(RemoteTargets(gd_relisted, MAX_IMAGES_DOWNLOAD))

\* C9 witness: a batch whose first item failed and whose later item was attempted.
C9_Witness ==
    \/ Len(download_log) >= 2 /\ download_log[1].outcome # "ok"
    \/ Len(local_delete_log) >= 2 /\ ~local_delete_log[1].ok
    \/ Len(gd_delete_log) >= 2 /\ ~gd_delete_log[1].ok

\* Number of entries of a delete log that record a success.
Successes(log) == Cardinality({i \in 1..Len(log) : log[i].ok})

\* C8 (as claimed): when a page fetch of the snapshot listing fails, the pass
\* downloads nothing, deletes nothing and returns the failure value, and main
\* does not invoke create_video in that cycle.
C8_ListingFailureAborts ==
    list_failed =>
        /\ download_log = <<>>
        /\ local_delete_log = <<>>
        /\ gd_delete_log = <<>>
        /\ pc = "returned" => sync_result.is_none
        /\ caller = "process" => pc \notin {"assemble", "upload", "evict"}

\* C10 (as claimed): every count a batch operation reports is the number of
\* its items that succeeded.
C10_CountsAreSuccesses ==
    /\ downloaded_count =
          Cardinality({i \in 1..Len(download_log) : download_log[i].outcome = "ok"})
    /\ removed_count = Successes(local_delete_log)
    /\ gd_removed = Successes(gd_delete_log)
    /\ overflow_cleanup_result.returned =>
          /\ overflow_cleanup_result.local_removed = Successes(overflow_local_log)
          /\ overflow_cleanup_result.gd_removed = Successes(overflow_gd_log)
          /\ overflow_cleanup_result.total_removed =
                Successes(overflow_local_log) + Successes(overflow_gd_log)

\* C11: create_video returns success exactly when the encoder was started,
\* exited with status zero and the output file exists with a size above zero;
\* every other outcome (a nonzero status, a missing or empty output, an
\* exception) is a failure, and one call starts the encoder at most once.
C11_SuccessIffExitZeroAndOutput ==
    video_created.returned =>
        /\ video_created.value <=>
              /\ process.started = create_video_calls
              /\ process.polled
              /\ process.return_code = 0
              /\ output_video = "video"
        /\ process.started <= create_video_calls

\* C11 witness: the encoder exited with status zero over an empty output file,
\* and create_video returned failure.
C11_Witness ==
    /\ video_created.returned
    /\ ~video_created.value
    /\ process.started = 1
    /\ process.polled
    /\ process.return_code = 0
    /\ output_video = "empty"

\* C12: create_video called with no image path returns failure and has
\* written no manifest, started no encoder and armed no watchdog.
C12_EmptyInputRejected ==
    (video_created.returned /\ image_paths = <<>>) =>
        /\ ~video_created.value
        /\ image_list_file = NoManifest
        /\ process = NoProcess
        /\ ffmpeg_timer = "unarmed"

\* C12 witness: create_video has returned from a call with no image path.
C12_Witness ==
    /\ pc = "call_upload_video"
    /\ video_created.returned
    /\ image_paths = <<>>

\* C13: when create_video has returned failure in a run (a nonzero status of
\* the encoder, an empty or missing output, an encoder killed on timeout),
\* no upload request is issued in that run and create_video is not called a
\* second time.
C13_NoUploadAfterFailedAssembly ==
    (video_created.returned /\ ~video_created.value) =>
        /\ pc \notin {"upload", "evict"}
        /\ upload_calls = 0
        /\ upload = NoUpload
        /\ create_video_calls = 1

\* C13 witness: a run has ended after the watchdog killed the encoder.
C13_Witness ==
    /\ pc = "exited"
    /\ exit_status = 0
    /\ video_created.returned
    /\ ~video_created.value
    /\ ffmpeg_timer = "fired"

\* The words by which a message names a transient error.
NamesNetworkCondition(msg) ==
    \/ Contains(lower(msg), <<"s", "s", "l">>)
    \/ Contains(lower(msg), <<"e", "o", "f">>)
    \/ Contains(lower(msg), <<"p", "r", "o", "t", "o", "c", "o", "l">>)
    \/ Contains(lower(msg), <<"c", "o", "n", "n", "e", "c", "t", "i", "o", "n">>)
    \/ Contains(lower(msg), <<"t", "i", "m", "e", "o", "u", "t">>)

\* C14: upload_video makes at most 3 attempts; every attempt that is followed
\* by another one failed with a transient error (a message with ssl, eof,
\* protocol, connection or timeout in it); a failure with any other error is
\* the last attempt, is raised, and is followed by no backoff sleep.
C14_RetryOnlyTransient ==
    /\ \A m \in ErrorMessages : m \in TransientMessages <=> NamesNetworkCondition(m)
    /\ ~NamesNetworkCondition(NoFileIdMessage)
    /\ upload.returned =>
          /\ upload.attempts <= 3
          /\ Len(upload.log) = upload.attempts
          /\ \A i \in 1..(Len(upload.log) - 1) : upload.log[i] = "transient"
          /\ Len(upload.slept) <= upload.attempts - 1
          /\ upload.log[Len(upload.log)] \in {"permanent", "no_id"} =>
                /\ upload.raised
                /\ Len(upload.slept) = upload.attempts - 1

\* C14 witness: a call ended by a permanent error at its second attempt, after
\* one transient error and one sleep.
C14_Witness ==
    /\ upload.returned
    /\ upload.log = <<"transient", "permanent">>
    /\ upload.raised
    /\ upload.slept = <<1>>

\* C15: an upload whose first two attempts fail with transient errors and
\* whose third attempt succeeds returns success after exactly three attempts,
\* and exactly one object has been created in the destination folder.
C15_ThirdAttemptSucceeds ==
    upload.log = <<"transient", "transient", "id">> =>
        /\ upload.returned
        /\ ~upload.raised
        /\ upload.attempts = 3
        /\ upload.requests = 3
        /\ upload.created = 1

\* C15 witness: upload_video has returned from two transient failures and a
\* success, having slept 1 and then 2 seconds.
C15_Witness ==
    /\ pc = "called"
    /\ upload.log = <<"transient", "transient", "id">>
    /\ upload.slept = <<1, 2>>

\* C16 (as claimed): when upload_video has raised, the video file is still on
\* disk once main has finished.
C16_VideoKeptAfterFailedUpload ==
    (pc = "exited" /\ exit_status = 0 /\ upload.raised) => output_video = "video"

\* The stage a position of main belongs to: 1 Authenticate, 2 DiscoverTargets
\* (the synchronize_images call of the discovery included), 3 Reconcile,
\* 4 Assemble, 5 Upload, 6 Evict, 7 Done.
InPass == pc \in {"snapshot", "download", "local_cleanup", "gd_cleanup", "final", "returned"}
Stage ==
    IF pc \in {"main_entry", "authenticate"} THEN 1
    ELSE IF pc \in {"verify", "list_locations", "list_cameras", "main_start", "main_selected"}
    THEN 2
    ELSE IF InPass THEN (IF caller = "process" THEN 3 ELSE 2)
    ELSE IF pc = "assemble" THEN 4
    ELSE IF pc = "upload" THEN 5
    ELSE IF pc = "evict" THEN 6
    ELSE 7

Assembling == pc = "assemble" \/ create_video_calls >= 1
Reconciled == caller = "process" /\ run >= 1 /\ ~InPass /\ ~sync_result.is_none
UploadAfterAssembly ==
    (pc = "upload" \/ upload_calls >= 1) => (video_created.returned /\ video_created.value)
EvictAfterUpload ==
    (pc = "evict" \/ overflow_cleanup_result.returned) => (upload.returned /\ ~upload.raised)

\* C17 (as claimed): the stages of a run occur in the order Authenticate,
\* DiscoverTargets, Reconcile, Assemble, Upload, Evict, Done; Assemble starts
\* only after the target's Reconcile has completed with a result, Upload only
\* after create_video succeeded, the final eviction only after the upload
\* succeeded.
C17_StagesInOrderAlways ==
    /\ [](Assembling => Reconciled)
    /\ [](UploadAfterAssembly /\ EvictAfterUpload)
    /\ [][Stage' >= Stage]_vars

\* C17 (amended): the same, where Assemble has to follow a completed
\* Reconcile only when the synchronization is enabled (ENABLE_IMAGE_SYNC and
\* SYNC_BEFORE_VIDEO); with it disabled there is no Reconcile stage.
C17_StagesInOrder ==
    /\ []((Assembling /\ ENABLE_IMAGE_SYNC /\ SYNC_BEFORE_VIDEO) => Reconciled)
    /\ []((run >= 1) => (ENABLE_IMAGE_SYNC /\ SYNC_BEFORE_VIDEO))
    /\ [](UploadAfterAssembly /\ EvictAfterUpload)
    /\ [][Stage' >= Stage]_vars

\* C17 witness: a run with the synchronization enabled has gone through every
\* stage, the final eviction included.
C17_Witness ==
    /\ pc = "exited"
    /\ exit_status = 0
    /\ ENABLE_IMAGE_SYNC /\ SYNC_BEFORE_VIDEO
    /\ caller = "process"
    /\ overflow_cleanup_result.returned

\* C18 (as claimed): the image paths given to create_video are the content of
\* the local cache as the reconciliation left it, limited to
\* MAX_IMAGES_PER_VIDEO.
C18_AssemblerGetsReconciledCache ==
    (video_created.returned /\ upload_calls = 0) =>
        image_paths = Take(get_images_from_local_storage(local), MAX_IMAGES_PER_VIDEO)

\* C19 (as claimed): after a failure of the authentication, of the access to
\* the root folder or of a listing of subfolders, the run performs no
\* reconciliation pass, no download, no delete, no encoder start and no upload.
C19_FailedStartupDoesNothing ==
    discovery_failure # "none" =>
        /\ run = 0
        /\ download_log = <<>>
        /\ local_delete_log = <<>>
        /\ gd_delete_log = <<>>
        /\ overflow_local_log = <<>>
        /\ overflow_gd_log = <<>>
        /\ create_video_calls = 0
        /\ process.started = 0
        /\ upload_calls = 0

\* C20 (as claimed): the process ends with a nonzero status when FOLDER_A_ID
\* is missing, when the authentication has failed and when the global timeout
\* has fired, and with status zero otherwise.
C20_ExitStatus ==
    pc = "exited" =>
        /\ (FOLDER_A_ID = "" \/ discovery_failure = "authenticate") => exit_status # 0
        /\ exit_status \in {0, 1}

\* A run that ended on a configuration error: FOLDER_A_ID is not set, or
\* verify_folder_access refused the root folder.
ConfigurationError ==
    /\ pc = "exited"
    /\ exit_status = 0
    /\ FOLDER_A_ID = "" \/ discovery_failure = "verify_folder_access"

\* No operation that changes the remote folder or the local cache has run:
\* no synchronize_images pass, no overflow cleanup, no encoder, no upload.
StoresUntouched ==
    /\ run = 0
    /\ download_log = <<>> /\ local_delete_log = <<>> /\ gd_delete_log = <<>>
    /\ overflow_local_log = <<>> /\ overflow_gd_log = <<>>
    /\ create_video_calls = 0
    /\ upload_calls = 0

\* C21: a run that aborts on a configuration error (root identifier missing,
\* or root folder not accessible) has no side effect: the remote folder, the
\* local cache and the working directory TEMP_DIR are after the run what they
\* were before it.
C21_ConfigErrorLeavesNoTrace ==
    ConfigurationError => (StoresUntouched /\ temp_dir_exists)

\* A permanent remote error: the remote refuses the request (403), whether
\* the client raises it as an HttpError or as another exception.
IsPermanentError(outcome) == outcome.kind # "ok" /\ outcome.msg = ForbiddenError

\* C22: a permanent remote error ends the call that met it: authenticate,
\* verify_folder_access and list_subfolders make no further attempt after an
\* attempt that met a permanent error.
C22_NoAttemptAfterPermanentError ==
    \A i \in 1..Len(remote_call.log) :
        IsPermanentError(remote_call.log[i]) => i = Len(remote_call.log)

\* Every request of a log that failed is followed by another request for the
\* same object.
FailuresTriedAgain(log, Failed(_)) ==
    \A i \in 1..Len(log) :
        Failed(log[i]) => \E j \in (i + 1)..Len(log) : log[j].id = log[i].id

\* C23: each remote operation of a pass is tried again after a failure: a
\* page fetch that raised does not end the listing, a download that failed is
\* requested again, and so is a delete that failed; one failure does not make
\* the item be skipped.
C23_FailedRequestsTriedAgain ==
    LET DownloadFailed(e) == e.outcome # "ok"
        DeleteFailed(e) == ~e.ok
    IN  /\ ~list_failed
        /\ FailuresTriedAgain(download_log, DownloadFailed)
        /\ FailuresTriedAgain(gd_delete_log, DeleteFailed)

\* The scenario of C24 at the end of a first pass without any failure: both
\* caps equal, fewer local images than the cap, more remote objects than the
\* cap, every local image also in the remote folder.
CapScenario ==
    LET local_bases  == {splitext(local_storage_info.files[i].name) :
                            i \in 1..Len(local_storage_info.files)}
        remote_bases == {splitext(google_drive_images[i].name) :
                            i \in 1..Len(google_drive_images)}
    IN  /\ pc = "returned"
        /\ run = 1
        /\ faults = 0
        /\ MAX_IMAGES_PER_VIDEO = MAX_IMAGES_DOWNLOAD
        /\ initial_local_count < MAX_IMAGES_PER_VIDEO
        /\ initial_gd_count > MAX_IMAGES_PER_VIDEO
        /\ local_bases \subseteq remote_bases
        /\ Len(new_images) >= MAX_IMAGES_PER_VIDEO - initial_local_count

\* C24: with both caps equal to C, L < C local images and R > C remote
\* objects that include the L local ones, one pass downloads exactly C - L
\* images, removes no local file and deletes exactly R - C remote objects,
\* none of them younger than an object it keeps.
C24_ScenarioCounts ==
    CapScenario =>
        /\ downloaded_count = MAX_IMAGES_PER_VIDEO - initial_local_count
        /\ Len(download_log) = MAX_IMAGES_PER_VIDEO - initial_local_count
        /\ local_delete_log = <<>>
        /\ Successes(gd_delete_log) = initial_gd_count - MAX_IMAGES_DOWNLOAD
        /\ \A d \in DeletedIds(gd_delete_log),
              k \in Range(Ids(google_drive_images)) \ DeletedIds(gd_delete_log) :
                RemoteModified(d) <= RemoteModified(k)

\* C25: create_video is never given more than MAX_IMAGES_PER_VIDEO image
\* paths, whatever the size of the local cache, and the encoder is started
\* over one path at least.
C25_PathsWithinCap ==
    /\ create_video_calls >= 1 => Len(image_paths) <= MAX_IMAGES_PER_VIDEO
    /\ process.started >= 1 => Len(image_paths) >= 1

\* C25 witness: more local images than the cap, and the encoder started over
\* exactly MAX_IMAGES_PER_VIDEO of them.
C25_Witness ==
    /\ video_created.returned
    /\ process.started = 1
    /\ Len(local_images) > MAX_IMAGES_PER_VIDEO
    /\ LocalCount > MAX_IMAGES_PER_VIDEO
    /\ Len(image_paths) = MAX_IMAGES_PER_VIDEO

\* C26: an upload_video call that succeeds returns to its caller the
\* identifier of the object it created.
C26_UploadReturnsIdentifier ==
    (upload.returned /\ ~upload.raised) =>
        /\ upload.file_id = NewFileId
        /\ upload.value = upload.file_id

\* C27: whenever create_video starts the encoder, over any number N >= 1 of
\* images and any desired_duration, the frame rate of the command is 24.
C27_FixedFrameRate ==
    process.started >= 1 => process.fps = 24

\* C27 witness: the encoder started over several images with a desired
\* duration that would give another rate.
C27_Witness ==
    /\ process.started = 1
    /\ process.fps = 24
    /\ Len(image_paths) >= 2
    /\ desired_duration >= 1
    /\ Len(image_paths) \div desired_duration # 24

\* C28: the remote snapshot of a pass is a full enumeration of the folder:
\* get_google_drive_images returns every image object of it, each once.
C28_SnapshotIsFullEnumeration ==
    pc = "download" =>
        /\ Range(Ids(google_drive_images)) = {o.id : o \in remote}
        /\ Len(google_drive_images) = Cardinality(remote)

\* The base names of the files of the local snapshot, and the positions of
\* the remote snapshot whose object has none of them as its base name.
SnapshotBaseNames ==
    {local_storage_info.files[i].name.base : i \in 1..Len(local_storage_info.files)}
PositionsOfNew ==
    {i \in 1..Len(google_drive_images) :
        google_drive_images[i].name.base \notin SnapshotBaseNames}

\* C29: identify_new_images returns exactly the objects of the remote
\* snapshot whose base name is the base name of no file of the local
\* snapshot, each once and in listing order; an object whose base name is
\* that of a local file is not returned, whatever its extension.
C29_NewImagesExact ==
    /\ Len(new_images) = Cardinality(PositionsOfNew)
    /\ Range(new_images) = {google_drive_images[i] : i \in PositionsOfNew}
    /\ \A a, b \in 1..Len(new_images) :
          a < b => \E i, j \in PositionsOfNew :
                      /\ i < j
                      /\ google_drive_images[i] = new_images[a]
                      /\ google_drive_images[j] = new_images[b]
    /\ \A k \in 1..Len(new_images) : new_images[k].name.base \notin SnapshotBaseNames

\* C29 witness: a snapshot with two new objects and an object left out whose
\* base name is that of a local file of another extension.
C29_Witness ==
    /\ pc = "download"
    /\ Len(new_images) >= 2
    /\ \E i \in 1..Len(google_drive_images), j \in 1..Len(local_storage_info.files) :
          /\ google_drive_images[i].name.base = local_storage_info.files[j].name.base
          /\ google_drive_images[i].name.ext # local_storage_info.files[j].name.ext
          /\ google_drive_images[i] \notin Range(new_images)

\* C30: the watchdog sends nothing unless its timer fired and found the
\* encoder running; it sends terminate first and kill only after it, and only
\* when the encoder is still running after the grace period; a create_video
\* call whose encoder the watchdog ended returns failure.
C30_WatchdogOrder ==
    /\ ~watchdog.fired => watchdog.signals = <<>>
    /\ watchdog.signals \in {<<>>, <<"terminate">>, <<"terminate", "kill">>}
    /\ watchdog.signals # <<>> => watchdog.running[1]
    /\ watchdog.signals = <<"terminate", "kill">> => watchdog.running[2]
    /\ (watchdog.killed /\ video_created.returned) => ~video_created.value

\* C30 witness: the timer fired during the call, the encoder ignored the
\* terminate and was killed after having written a video, and create_video
\* returned failure.
C30_Witness ==
    /\ watchdog.fired
    /\ watchdog.signals = <<"terminate", "kill">>
    /\ watchdog.killed
    /\ process.polled
    /\ process.return_code = -9
    /\ output_video = "video"
    /\ video_created.returned
    /\ ~video_created.value

\* C39: once create_video has returned, the encoder watchdog timer it armed
\* is no longer pending: every return path has cancelled it (or it has fired).
C39_NoWatchdogPendingAfterReturn ==
    video_created.returned => ffmpeg_timer # "armed"

\* C38: authenticate makes between one and MAX_RETRIES attempts; it ends
\* either by returning the service handle of a successful attempt or by
\* raising after the last failed one, never by returning None; and it has
\* slept once between every two attempts and not after the last.
C38_AuthenticateReturnsOrRaises ==
    remote_call.fn = "authenticate" =>
        /\ remote_call.attempts \in 1..MAX_RETRIES
        /\ Len(remote_call.log) = remote_call.attempts
        /\ remote_call.failed = (remote_call.value # ServiceHandle)
        /\ remote_call.value = ServiceHandle
               <=> remote_call.log[remote_call.attempts].kind = "ok"
        /\ remote_call.failed => remote_call.attempts = MAX_RETRIES
        /\ \A i \in 1..(remote_call.attempts - 1) : remote_call.log[i].kind # "ok"
        /\ Len(remote_call.slept) = remote_call.attempts - 1

\* all three attempts failed: two sleeps, then the exception
C38_Witness ==
    /\ remote_call.fn = "authenticate"
    /\ remote_call.failed
    /\ remote_call.attempts = MAX_RETRIES
    /\ Len(remote_call.slept) = MAX_RETRIES - 1

\* C36: every file the local eviction of a pass removes or tries to remove is
\* a file of the local snapshot taken before the downloads of that pass, and
\* none of them is a file the pass has written.
C36_EvictionOnlyFromSnapshot ==
    \A i \in 1..Len(local_delete_log) :
        /\ \E j \in 1..Len(local_storage_info.files) :
               local_storage_info.files[j].name = local_delete_log[i].name
        /\ \A j \in 1..Len(download_log) :
               download_log[j].name # local_delete_log[i].name

\* a pass whose local eviction has removed a file
C36_Witness ==
    /\ pc = "gd_cleanup"
    /\ \E i \in 1..Len(local_delete_log) : local_delete_log[i].ok

\* C35: after the download phase of a pass the number of image files in the
\* local cache equals initial_local_count + downloaded_count, the total the
\* local eviction decision is taken on.
C35_ArithmeticTotalExact ==
    pc = "local_cleanup" => LocalCount = initial_local_count + downloaded_count

\* C34: after download_new_images the local cache holds no file for an object
\* whose download failed.
C34_FailedDownloadLeavesNoFile ==
    pc = "local_cleanup" =>
        \A i \in 1..Len(download_log) :
            download_log[i].outcome # "ok" =>
                ~\E f \in local : f.name = download_log[i].name

\* C33: when create_video is called, every path in its input names a file
\* that is in the local cache; none was removed by the eviction step of the
\* reconciliation that preceded the call.
C33_AssemblerInputExists ==
    (video_created.returned /\ upload_calls = 0 /\ ~overflow_cleanup_result.returned) =>
        \A i \in 1..Len(image_paths) : \E f \in local : f.name = image_paths[i]

\* C37: a target other than the pair selected for the video is left as it
\* was: the run writes no file into its local cache, removes none from it and
\* deletes no object of its remote image folder.
C37_OtherTargetsUntouched ==
    first_pair = "other" =>
        /\ \A i \in 1..Len(download_log) : download_log[i].outcome = "open_error"
        /\ \A i \in 1..Len(local_delete_log) : ~local_delete_log[i].ok
        /\ \A i \in 1..Len(gd_delete_log) : ~gd_delete_log[i].ok

\* C32: once main has gone through its finally block and returned, neither
\* the global timeout timer nor any progress timer is pending.
C32_NoTimerPendingAfterFinally ==
    (pc = "exited" /\ exit_status = 0) =>
        /\ timeout_timer # "armed"
        /\ progress_timer \notin {"first", "rearmed"}

\* C31: in every state of main before the process has ended the global
\* timeout timer is pending and can fire; when it fires the process is ended
\* with exit status 1 and nothing else of the program's state changes.
C31_GlobalWatchdog ==
    /\ [](pc # "exited" => (timeout_timer = "armed" /\ ENABLED TimeoutFires))
    /\ [][(timeout_timer = "armed" /\ timeout_timer' = "fired") =>
              /\ pc' = "exited"
              /\ exit_status' = 1
              /\ UNCHANGED <<main_state, discovery_failure, progress_timer>>]_vars

\* the timer has fired between create_video and upload_video
C31_Witness ==
    /\ timeout_timer = "fired"
    /\ pc = "exited"
    /\ exit_status = 1
    /\ video_created.returned
    /\ video_created.value
    /\ upload_calls = 0

====
